---- MODULE Spec2Model ----
(***************************************************************************)
(* Model of the request handlers of src/server.js (Express + Mongoose).    *)
(*                                                                         *)
(* Every handler is an async function: it runs without interruption        *)
(* between two awaits and may be interleaved with other requests at each   *)
(* await.  One action of this module is one such uninterrupted piece; the  *)
(* database operation or the mail delivery the piece awaits is part of the *)
(* action that follows the await.  Times are in milliseconds, as           *)
(* Date.now() gives them; the clock advances in steps of TickMs.           *)
(***************************************************************************)
EXTENDS Integers, FiniteSets, Sequences, TLC

VARIABLES
    users,        \* the User collection: a set of documents
    now,          \* Date.now()
    pc,           \* per request slot: the await the request is parked on
    req,          \* per request slot: the request being served and its locals
    resp,         \* per request slot: the response sent (res.status().json())
    issued,       \* observation: the OTP written by signup, per email
    okCount,      \* observation: number of successful verify-otp responses, per email
    mismatches,   \* observation: 'Invalid OTP' responses while an OTP was stored, per email
    expiries,     \* observation: 'OTP expired' responses for the stored OTP, per email
    undelivered,  \* observation: emails whose signup OTP mail failed
    tokensIssued, \* observation: reset tokens handed out by forgot-password
    used,         \* observation: reset tokens that have reset a password
    contacts,     \* number of saved Contact documents
    bookings,     \* number of saved Booking documents
    bookingDocs,  \* the Booking collection in insertion order: the payment of each document
    refunded      \* observation: payment ids the gateway has accepted a refund for

vars == <<users, now, pc, req, resp, issued, okCount, mismatches, expiries,
          undelivered, tokensIssued, used, contacts, bookings,
          bookingDocs, refunded>>

authObs == <<issued, okCount, mismatches, expiries, undelivered, tokensIssued>>
stores == <<contacts, bookings, bookingDocs, refunded>>
resetObs == <<used>>

----------------------------------------------------------------------------
(* Bounds of the model *)

MaxTicks == 3
MaxTokens == 2
MaxRecords == 2
MaxCount == 2

TickMs == 5 * 60 * 1000

Procs == {1, 2}
Emails == {"a@x.io", "b@x.io"}
Names == {"Asha"}
Passwords == {"pw1", "pw2"}
Codes == {"111111", "222222"}
PaymentIds == {"pay_1", "pay_2"}
Amounts == {1500}

----------------------------------------------------------------------------
(* Values *)

Null == "null"
NullDate == 0
OTP_TTL == 10 * 60 * 1000
RESET_TTL == 15 * 60 * 1000
RESET_JWT_TTL == 15 * 60
LOGIN_JWT_TTL == 7 * 24 * 60 * 60

NoUser == [id |-> 0]
NoToken == [userId |-> 0, iat |-> 0, exp |-> 0, sig |-> "none"]
ForgedToken == [userId |-> 1, iat |-> 0, exp |-> 0, sig |-> "bad"]
NoReq == [op |-> "none"]
NoResp == [status |-> 0]
NoOtp == [otp |-> Null, expiresAt |-> NullDate]

\* what req.body.otp can carry: a code string or JSON null
SubmittedOtps == Codes \cup {Null}

\* bcrypt.hash(password, 10): a one-way image of the password
Hash(password) == <<"bcrypt", password>>

\* bcrypt.compare(password, hash)
Compare(password, hash) == hash = Hash(password)

\* jwt.sign({ userId }, secret, { expiresIn }) at time t (iat, exp in seconds)
JwtSign(userId, t, ttl) ==
    [userId |-> userId, iat |-> t \div 1000, exp |-> (t \div 1000) + ttl, sig |-> "ok"]

\* jwt.verify(token, secret) at time t: TRUE when it returns, FALSE when it throws
JwtVerifies(token, t) ==
    /\ token.sig = "ok"
    /\ ~((t \div 1000) >= token.exp)

\* Responses, with the status and message the code sends
Resp(status, message) == [status |-> status, message |-> message]
SignupCreated == Resp(201, "OTP sent to your email. Please verify.")
EmailInUse == Resp(400, "Email already in use")
UserNotFound == Resp(400, "User not found")
InvalidOtp == Resp(400, "Invalid OTP")
OtpExpired == Resp(400, "OTP expired")
Verified == Resp(200, "Account verified! You can now log in.")
InvalidCredentials == Resp(401, "Invalid credentials")
VerifyFirst == Resp(401, "Please verify your email first.")
LoginOk == Resp(200, "Login successful")
ForgotNoUser == Resp(400, "User not found with this email")
ResetLinkSent == Resp(200, "Reset link sent to your email.")
InvalidOrExpiredToken == Resp(400, "Invalid or expired token")
ResetOk == Resp(200, "Password reset successful")
ServerError == Resp(500, "Server error")
MailError == Resp(500, "sendMail failed")
DuplicateKey == Resp(500, "E11000 duplicate key error")

----------------------------------------------------------------------------
(* The User collection *)

\* a query whose filter is dropped: every document matches
ByEmailUnfiltered(email) == users

\* the documents matching the filter { email }
ByEmail(email) == {u \in users : u.email = email}

\* User.findOne(filter): a matching document, or null
FindOne(matching) == IF matching = {} THEN NoUser ELSE CHOOSE u \in matching : TRUE

Found(u) == u.id # 0

\* a collection without the unique index
NoUniqueIndex(email) == TRUE

\* the unique index on email (userSchema: unique: true)
UniqueEmailOk(email) == ByEmail(email) = {}

\* a schema whose verified flag defaults to true
NewUserVerified(name, email, password, otp, t) ==
    [id |-> Cardinality(users) + 1,
     name |-> name,
     email |-> email,
     password |-> Hash(password),
     verified |-> TRUE,
     otp |-> otp,
     otpExpires |-> t + OTP_TTL,
     resetPasswordToken |-> NoToken,
     resetPasswordExpire |-> NullDate]

\* new User({...}) of signup
NewUser(name, email, password, otp, t) ==
    [id |-> Cardinality(users) + 1,
     name |-> name,
     email |-> email,
     password |-> Hash(password),
     verified |-> FALSE,
     otp |-> otp,
     otpExpires |-> t + OTP_TTL,
     resetPasswordToken |-> NoToken,
     resetPasswordExpire |-> NullDate]

\* a save that sets the verified flag and leaves the code in place
AfterVerifyKeepsOtp(u) == [u EXCEPT !.verified = TRUE]

\* the document verify-otp saves
AfterVerify(u) == [u EXCEPT !.verified = TRUE, !.otp = Null, !.otpExpires = NullDate]

\* save() writes a path only when the value assigned differs from the one the
\* document was loaded with
SetIfModified(stored, loaded, assigned) == IF assigned = loaded THEN stored ELSE assigned

\* the document forgot-password saves
AfterForgot(u, token, expire) ==
    [u EXCEPT !.resetPasswordToken = token, !.resetPasswordExpire = expire]

\* the document reset-password saves
AfterReset(u, password) ==
    [u EXCEPT !.password = Hash(password),
              !.resetPasswordToken = NoToken,
              !.resetPasswordExpire = NullDate]

Idle(p) == pc[p] = "idle"

\* the observation counters stop counting at MaxCount
Counted(n) == IF n < MaxCount THEN n + 1 ELSE n

Reply(p, r) == /\ pc' = [pc EXCEPT ![p] = "done"]
               /\ resp' = [resp EXCEPT ![p] = r]

Park(p, at) == /\ pc' = [pc EXCEPT ![p] = at]
               /\ resp' = [resp EXCEPT ![p] = NoResp]

----------------------------------------------------------------------------
Init ==
    /\ users = {}
    /\ now = TickMs
    /\ pc = [p \in Procs |-> "idle"]
    /\ req = [p \in Procs |-> NoReq]
    /\ resp = [p \in Procs |-> NoResp]
    /\ issued = [e \in Emails |-> NoOtp]
    /\ okCount = [e \in Emails |-> 0]
    /\ mismatches = [e \in Emails |-> 0]
    /\ expiries = [e \in Emails |-> 0]
    /\ undelivered = {}
    /\ tokensIssued = {}
    /\ used = {}
    /\ contacts = 0
    /\ bookings = 0
    /\ bookingDocs = <<>>
    /\ refunded = {}

\* time passes
Tick ==
    /\ now < (MaxTicks + 1) * TickMs
    /\ now' = now + TickMs
    /\ UNCHANGED <<users, pc, req, resp, authObs, stores, resetObs>>

----------------------------------------------------------------------------
(* POST /api/auth/signup *)

\* lines 118-123: findOne, the early return when the email is taken, and the
\* call of bcrypt.hash (otp is the code line 124 will draw for this request)
SignupFind(p, name, email, password, otp) ==
    /\ Idle(p)
    /\ req' = [req EXCEPT ![p] = [op |-> "signup", name |-> name, email |-> email,
                                  password |-> password, otp |-> otp]]
    /\ IF Found(FindOne(ByEmail(email)))
         THEN Reply(p, EmailInUse)
         ELSE Park(p, "signup_hash")
    /\ UNCHANGED <<users, now, authObs, stores, resetObs>>

\* lines 123-133: bcrypt.hash returns, the document is built with the
\* Date.now() of this moment (builtAt), and user.save() is called
SignupHash(p) ==
    /\ pc[p] = "signup_hash"
    /\ req' = [req EXCEPT ![p] = req[p] @@ [builtAt |-> now]]
    /\ Park(p, "signup_save")
    /\ UNCHANGED <<users, now, authObs, stores, resetObs>>

\* line 133: user.save() returns, or throws on the unique index
SignupSave(p) ==
    /\ pc[p] = "signup_save"
    /\ LET r == req[p] IN
       IF UniqueEmailOk(r.email)
         THEN /\ users' = users \cup {NewUser(r.name, r.email, r.password, r.otp,
                                               r.builtAt)}
              /\ issued' = [issued EXCEPT ![r.email] =
                               [otp |-> r.otp, expiresAt |-> r.builtAt + OTP_TTL]]
              /\ Park(p, "signup_mail")
         ELSE /\ Reply(p, DuplicateKey)
              /\ UNCHANGED <<users, issued>>
    /\ UNCHANGED <<now, req, okCount, mismatches, expiries, undelivered,
                   tokensIssued, stores, resetObs>>

\* a catch that deletes the document whose mail failed
RollbackOnMailFailure(email) == users \ ByEmail(email)

\* lines 144-146: the catch only responds; the saved document stays
UsersAfterMailFailure(email) == users

\* lines 136-146: send the OTP mail; a rejected sendMail lands in the catch
SignupMail(p, delivered) ==
    /\ pc[p] = "signup_mail"
    /\ IF delivered
         THEN /\ Reply(p, SignupCreated)
              /\ UNCHANGED <<users, undelivered>>
         ELSE /\ Reply(p, MailError)
              /\ users' = UsersAfterMailFailure(req[p].email)
              /\ undelivered' = undelivered \cup {req[p].email}
    /\ UNCHANGED <<now, req, issued, okCount, mismatches, expiries,
                   tokensIssued, stores, resetObs>>

----------------------------------------------------------------------------
(* POST /api/auth/verify-otp *)

\* the comparison with === in place of !==
OtpDiffersInverted(stored, submitted) == stored = submitted

\* line 155: user.otp !== otp (strict inequality, no coercion)
OtpDiffers(stored, submitted) == stored # submitted

\* the comparison with > in place of <
OtpIsExpiredInverted(otpExpires, t) == otpExpires > t

\* line 156: user.otpExpires < Date.now(); a null date compares as 0
OtpIsExpired(otpExpires, t) == otpExpires < t

\* lines 151-156: findOne and the three checks
VerifyFind(p, email, otp) ==
    /\ Idle(p)
    /\ LET user == FindOne(ByEmail(email)) IN
       /\ req' = [req EXCEPT ![p] = [op |-> "verify", email |-> email, otp |-> otp,
                                     id |-> user.id]]
       /\ IF ~Found(user)
            THEN /\ Reply(p, UserNotFound)
                 /\ UNCHANGED <<mismatches, expiries>>
            ELSE IF OtpDiffers(user.otp, otp)
              THEN /\ Reply(p, InvalidOtp)
                   /\ mismatches' = IF user.otp # Null
                                       THEN [mismatches EXCEPT ![email] = Counted(@)]
                                       ELSE mismatches
                   /\ UNCHANGED expiries
              ELSE IF OtpIsExpired(user.otpExpires, now)
                THEN /\ Reply(p, OtpExpired)
                     /\ expiries' = IF otp # Null
                                        THEN [expiries EXCEPT ![email] = Counted(@)]
                                        ELSE expiries
                     /\ UNCHANGED mismatches
                ELSE /\ Park(p, "verify_save")
                     /\ UNCHANGED <<mismatches, expiries>>
    /\ UNCHANGED <<users, now, issued, okCount, undelivered, tokensIssued, stores, resetObs>>

\* lines 158-163: set the three fields on the document read, save it, respond
VerifySave(p) ==
    /\ pc[p] = "verify_save"
    /\ users' = {IF u.id = req[p].id THEN AfterVerify(u) ELSE u : u \in users}
    /\ okCount' = [okCount EXCEPT ![req[p].email] = @ + 1]
    /\ Reply(p, Verified)
    /\ UNCHANGED <<now, req, issued, mismatches, expiries, undelivered,
                   tokensIssued, stores, resetObs>>

----------------------------------------------------------------------------
(* POST /api/auth/login *)

\* lines 189-191: the catch answers 500 with the message of the error
LoginFailed == Resp(500, "findOne failed")

\* lines 171-178: findOne (a rejected query lands in the catch), the two early
\* returns, and the call of bcrypt.compare on the document read
LoginFind(p, email, password, findOk) ==
    /\ Idle(p)
    /\ LET user == FindOne(ByEmail(email)) IN
       IF ~findOk
         THEN /\ req' = [req EXCEPT ![p] = [op |-> "login", email |-> email,
                                            password |-> password]]
              /\ Reply(p, LoginFailed)
         ELSE IF ~Found(user)
           THEN /\ req' = [req EXCEPT ![p] = [op |-> "login", email |-> email,
                                              password |-> password]]
                /\ Reply(p, InvalidCredentials)
           ELSE /\ req' = [req EXCEPT ![p] = [op |-> "login", email |-> email,
                                              password |-> password, id |-> user.id,
                                              hash |-> user.password]]
                /\ IF ~user.verified
                     THEN Reply(p, VerifyFirst)
                     ELSE Park(p, "login_compare")
    /\ UNCHANGED <<users, now, authObs, stores, resetObs>>

\* lines 178-188: bcrypt.compare returns for the hash that findOne read; a
\* match signs the token with the Date.now() of this moment
LoginCompare(p) ==
    /\ pc[p] = "login_compare"
    /\ IF ~Compare(req[p].password, req[p].hash)
         THEN Reply(p, InvalidCredentials)
         ELSE Reply(p, [LoginOk EXCEPT !.status = 200] @@
                       [token |-> JwtSign(req[p].id, now, LOGIN_JWT_TTL)])
    /\ UNCHANGED <<users, now, req, authObs, stores, resetObs>>

----------------------------------------------------------------------------
(* POST /api/auth/forgot-password *)

\* lines 198-205: findOne, sign the token, set token and expiry on the document
ForgotFind(p, email) ==
    /\ Idle(p)
    /\ LET user == FindOne(ByEmail(email))
           token == JwtSign(user.id, now, RESET_JWT_TTL) IN
       IF ~Found(user)
         THEN /\ req' = [req EXCEPT ![p] = [op |-> "forgot", email |-> email]]
              /\ Reply(p, ForgotNoUser)
         ELSE /\ token \in tokensIssued \/ Cardinality(tokensIssued) < MaxTokens
              /\ req' = [req EXCEPT ![p] = [op |-> "forgot", email |-> email,
                                            id |-> user.id, token |-> token,
                                            expire |-> now + RESET_TTL,
                                            loadedToken |-> user.resetPasswordToken,
                                            loadedExpire |-> user.resetPasswordExpire]]
              /\ Park(p, "forgot_save")
    /\ UNCHANGED <<users, now, authObs, stores, resetObs>>

\* line 206: save the token and its expiry, each when it was modified
ForgotSave(p) ==
    /\ pc[p] = "forgot_save"
    /\ LET r == req[p]
           saved(u) == AfterForgot(u,
                          SetIfModified(u.resetPasswordToken, r.loadedToken, r.token),
                          SetIfModified(u.resetPasswordExpire, r.loadedExpire, r.expire))
       IN users' = {IF u.id = r.id THEN saved(u) ELSE u : u \in users}
    /\ Park(p, "forgot_mail")
    /\ UNCHANGED <<now, req, authObs, stores, resetObs>>

\* lines 208-228: mail the reset link; a rejected sendMail lands in the catch
ForgotMail(p, delivered) ==
    /\ pc[p] = "forgot_mail"
    /\ IF delivered
         THEN /\ Reply(p, ResetLinkSent)
              /\ tokensIssued' = tokensIssued \cup {req[p].token}
         ELSE /\ Reply(p, ServerError)
              /\ UNCHANGED tokensIssued
    /\ UNCHANGED <<users, now, req, issued, okCount, mismatches, expiries,
                   undelivered, stores, resetObs>>

----------------------------------------------------------------------------
(* POST /api/auth/reset-password/:token *)

\* lines 237-241: the filter of findOne
ResetMatches(u, token, t) ==
    /\ u.id = token.userId
    /\ u.resetPasswordToken = token
    /\ u.resetPasswordExpire > t

\* lines 232-241: jwt.verify (throws into the catch), and the call of findOne
\* with a filter that holds the Date.now() of this moment (filterNow)
ResetVerify(p, token, password) ==
    /\ Idle(p)
    /\ req' = [req EXCEPT ![p] = [op |-> "reset", token |-> token,
                                  password |-> password, filterNow |-> now]]
    /\ IF ~JwtVerifies(token, now)
         THEN Reply(p, ServerError)
         ELSE Park(p, "reset_find")
    /\ UNCHANGED <<users, now, authObs, stores, resetObs>>

\* lines 237-247: findOne returns, the early return when no document matches,
\* and the call of bcrypt.hash
ResetFind(p) ==
    /\ pc[p] = "reset_find"
    /\ IF ~Found(FindOne({u \in users :
                             ResetMatches(u, req[p].token, req[p].filterNow)}))
         THEN Reply(p, InvalidOrExpiredToken)
         ELSE Park(p, "reset_hash")
    /\ UNCHANGED <<users, now, req, authObs, stores, resetObs>>

\* lines 247-251: bcrypt.hash returns, the three fields are set on the document
\* in memory, and user.save() is called
ResetHash(p) ==
    /\ pc[p] = "reset_hash"
    /\ Park(p, "reset_save")
    /\ UNCHANGED <<users, now, req, authObs, stores, resetObs>>

\* lines 251-253: user.save() returns: the new hash is stored, token and expiry
\* are cleared, and the response is sent
ResetSave(p) ==
    /\ pc[p] = "reset_save"
    /\ users' = {IF u.id = req[p].token.userId THEN AfterReset(u, req[p].password)
                                               ELSE u : u \in users}
    /\ used' = used \cup {req[p].token}
    /\ Reply(p, ResetOk)
    /\ UNCHANGED <<now, req, authObs, stores>>

\* the tokens a client can put in the URL: one mailed to it, or one it made up
SubmittedTokens == tokensIssued \cup {ForgedToken}

----------------------------------------------------------------------------
(* POST /api/contact *)

MissingFields == [status |-> 400, success |-> FALSE, error |-> "Missing required fields"]
ContactFailed == [status |-> 500, success |-> FALSE, error |-> "Internal server error"]
BookingFailed == [status |-> 500, success |-> FALSE, error |-> "Failed to save booking"]

\* lines 352-356
ContactSubmitted(mailResults) ==
    [status |-> 201, success |-> TRUE, emailsSent |-> mailResults]

\* lines 482-486
BookingSaved(mailResults) ==
    [status |-> 200, success |-> TRUE, emailsSent |-> mailResults]

\* lines 263-348: validate, save the Contact, build both mails and send them
\* (coordinates is an array, as the schema asks)
ContactSave(p, complete, saveOk) ==
    /\ Idle(p)
    /\ IF ~complete
         THEN /\ req' = [req EXCEPT ![p] = [op |-> "contact", saved |-> FALSE]]
              /\ Reply(p, MissingFields)
              /\ UNCHANGED contacts
         ELSE IF ~saveOk
           THEN /\ req' = [req EXCEPT ![p] = [op |-> "contact", saved |-> FALSE]]
                /\ Reply(p, ContactFailed)
                /\ UNCHANGED contacts
           ELSE /\ contacts < MaxRecords
                /\ contacts' = contacts + 1
                /\ req' = [req EXCEPT ![p] = [op |-> "contact", saved |-> TRUE]]
                /\ Park(p, "contact_mail")
    /\ UNCHANGED <<users, now, authObs, bookings, bookingDocs, refunded, resetObs>>

\* lines 338-356: each sendMail sets its flag on success and swallows its failure
ContactMail(p, adminOk, clientOk) ==
    /\ pc[p] = "contact_mail"
    /\ req' = [req EXCEPT ![p] = [op |-> "contact", saved |-> TRUE,
                                  delivered |-> <<adminOk, clientOk>>]]
    /\ Reply(p, ContactSubmitted([admin |-> adminOk, client |-> clientOk]))
    /\ UNCHANGED <<users, now, authObs, stores, resetObs>>

----------------------------------------------------------------------------
(* POST /api/bookings *)

\* lines 414-465: the mail templates read travelerInfo.name and payment.amount,
\* which throws a TypeError when either object is absent from the body
TemplatesBuild(hasTraveler, hasPayment) == hasTraveler /\ hasPayment

\* the payment object of a saved Booking: its razorpayPaymentId and status
\* (a body without payment leaves the path unset)
PaymentOf(hasPayment, paymentId) ==
    IF hasPayment THEN [razorpayPaymentId |-> paymentId, status |-> "paid"]
                  ELSE [razorpayPaymentId |-> Null, status |-> Null]

\* lines 392-478: save the Booking (no field is required), build both mails
\* and send them; an exception anywhere lands in the catch
BookingSave(p, hasTraveler, hasPayment, paymentId, saveOk) ==
    /\ Idle(p)
    /\ IF ~saveOk
         THEN /\ req' = [req EXCEPT ![p] = [op |-> "booking", saved |-> FALSE,
                                            travelerInfo |-> hasTraveler,
                                            payment |-> hasPayment]]
              /\ Reply(p, BookingFailed)
              /\ UNCHANGED <<bookings, bookingDocs>>
         ELSE /\ bookings < MaxRecords
              /\ bookings' = bookings + 1
              /\ bookingDocs' = Append(bookingDocs, PaymentOf(hasPayment, paymentId))
              /\ req' = [req EXCEPT ![p] = [op |-> "booking", saved |-> TRUE,
                                            travelerInfo |-> hasTraveler,
                                            payment |-> hasPayment]]
              /\ IF TemplatesBuild(hasTraveler, hasPayment)
                   THEN Park(p, "booking_mail")
                   ELSE Reply(p, BookingFailed)
    /\ UNCHANGED <<users, now, authObs, contacts, refunded, resetObs>>

\* lines 468-486: each sendMail sets its flag on success and swallows its failure
BookingMail(p, adminOk, userOk) ==
    /\ pc[p] = "booking_mail"
    /\ req' = [req EXCEPT ![p] = [op |-> "booking", saved |-> TRUE,
                                  travelerInfo |-> TRUE, payment |-> TRUE,
                                  delivered |-> <<adminOk, userOk>>]]
    /\ Reply(p, BookingSaved([admin |-> adminOk, user |-> userOk]))
    /\ UNCHANGED <<users, now, authObs, stores, resetObs>>

----------------------------------------------------------------------------
(* POST /api/refund *)

\* line 516: amount: Math.round(amount * 100), for a whole amount
MinorUnits(amount) == amount * 100

\* refundResponse.data of an accepted refund
RefundRecord(paymentId, amount) ==
    [id |-> <<"rfnd", paymentId>>, amount |-> MinorUnits(amount), status |-> "processed"]

\* lines 542-547 (status is the HTTP status; the body's status field, the
\* refund's status at the gateway, is refund_status here)
RefundDone(record, amount) ==
    [status |-> 200, success |-> TRUE, refund_id |-> record.id, amount |-> amount,
     refund_status |-> record.status]

\* lines 550-553: the gateway's error description, or the fallback text
RefundFailed(description) == [status |-> 500, success |-> FALSE, error |-> description]
GatewayRejected == RefundFailed("gateway error description")
RefundProcessingFailed == RefundFailed("Refund processing failed")

\* how the gateway call ends: the refund is accepted; the gateway answers an
\* error that carries a description; or the call fails without one (a network
\* error, a timeout, an error body without error.description)
GatewayOutcomes == {"accepted", "rejected", "failed"}

\* line 552: error.response?.data?.error?.description || 'Refund processing failed'
GatewayError(outcome) ==
    IF outcome = "rejected" THEN GatewayRejected ELSE RefundProcessingFailed

\* line 529: the filter { "payment.razorpayPaymentId": payment_id }
MatchesPayment(docs, paymentId) ==
    {i \in 1..Len(docs) : docs[i].razorpayPaymentId = paymentId}

\* lines 528-540: findOneAndUpdate sets payment.status on the first matching
\* document and changes nothing when none matches (cancellationDetails is
\* not a path of bookingSchema, so the strict schema drops it from the update)
Cancelled(docs, paymentId) ==
    LET matching == MatchesPayment(docs, paymentId) IN
    IF matching = {} THEN docs
    ELSE LET first == CHOOSE i \in matching : \A j \in matching : i <= j IN
         [docs EXCEPT ![first].status = "cancelled"]

\* a catch that marks the booking although the gateway refused
CancelledOnGatewayError(docs, paymentId) == Cancelled(docs, paymentId)

\* lines 549-554: the catch only responds
DocsAfterGatewayError(docs, paymentId) == docs

\* lines 511-526 and the catch: the gateway call; an error answer or a failed
\* call throws into the catch
RefundGateway(p, paymentId, amount, outcome) ==
    /\ Idle(p)
    /\ req' = [req EXCEPT ![p] = [op |-> "refund", payment_id |-> paymentId,
                                  amount |-> amount, gateway |-> outcome = "accepted",
                                  updated |-> FALSE]]
    /\ IF outcome = "accepted"
         THEN /\ Park(p, "refund_update")
              /\ refunded' = refunded \cup {paymentId}
              /\ UNCHANGED bookingDocs
         ELSE /\ Reply(p, GatewayError(outcome))
              /\ bookingDocs' = DocsAfterGatewayError(bookingDocs, paymentId)
              /\ UNCHANGED refunded
    /\ UNCHANGED <<users, now, authObs, contacts, bookings, resetObs>>

\* lines 528-547 and the catch: the booking update, then the success response;
\* a database error throws into the catch
RefundUpdate(p, updateOk) ==
    /\ pc[p] = "refund_update"
    /\ req' = [req EXCEPT ![p].updated = updateOk]
    /\ IF updateOk
         THEN /\ bookingDocs' = Cancelled(bookingDocs, req[p].payment_id)
              /\ Reply(p, RefundDone(RefundRecord(req[p].payment_id, req[p].amount),
                                     req[p].amount))
         ELSE /\ UNCHANGED bookingDocs
              /\ Reply(p, RefundProcessingFailed)
    /\ UNCHANGED <<users, now, authObs, contacts, bookings, refunded, resetObs>>

----------------------------------------------------------------------------
\* the response has gone out and the request is over
Finish(p) ==
    /\ pc[p] = "done"
    /\ pc' = [pc EXCEPT ![p] = "idle"]
    /\ req' = [req EXCEPT ![p] = NoReq]
    /\ resp' = [resp EXCEPT ![p] = NoResp]
    /\ UNCHANGED <<users, now, authObs, stores, resetObs>>

----------------------------------------------------------------------------
(* Specifications *)

\* Signup, verification and login, requests served one after the other
Next ==
    \/ Tick
    \/ \E name \in Names, email \in Emails, otp \in Codes :
          SignupFind(1, name, email, "pw1", otp)
    \/ SignupHash(1)
    \/ SignupSave(1)
    \/ \E delivered \in BOOLEAN : SignupMail(1, delivered)
    \/ \E email \in Emails, otp \in SubmittedOtps : VerifyFind(1, email, otp)
    \/ VerifySave(1)
    \/ \E email \in Emails, password \in Passwords, findOk \in BOOLEAN :
          LoginFind(1, email, password, findOk)
    \/ LoginCompare(1)
    \/ Finish(1)

Spec == Init /\ [][Next]_vars

\* Signup and verification for one email, requests interleaved at their awaits
ConcEmails == {"a@x.io"}

NextConc ==
    \/ Tick
    \/ \E p \in Procs :
        \/ \E name \in Names, email \in ConcEmails, otp \in Codes :
              SignupFind(p, name, email, "pw1", otp)
        \/ SignupHash(p)
        \/ SignupSave(p)
        \/ \E delivered \in BOOLEAN : SignupMail(p, delivered)
        \/ \E email \in ConcEmails, otp \in SubmittedOtps : VerifyFind(p, email, otp)
        \/ VerifySave(p)
        \/ Finish(p)

SpecConc == Init /\ [][NextConc]_vars

\* Password reset, requests served one after the other.  The two accounts
\* have signed up at the first instant (signup of each email with password
\* "pw1" and code "111111", mail delivered); "nobody@x.io" has no account.
SignedUp(id, email) ==
    [id |-> id,
     name |-> "Asha",
     email |-> email,
     password |-> Hash("pw1"),
     verified |-> FALSE,
     otp |-> "111111",
     otpExpires |-> TickMs + OTP_TTL,
     resetPasswordToken |-> NoToken,
     resetPasswordExpire |-> NullDate]

InitReset ==
    /\ users = {SignedUp(1, "a@x.io"), SignedUp(2, "b@x.io")}
    /\ now = TickMs
    /\ pc = [p \in Procs |-> "idle"]
    /\ req = [p \in Procs |-> NoReq]
    /\ resp = [p \in Procs |-> NoResp]
    /\ issued = [e \in Emails |-> [otp |-> "111111", expiresAt |-> TickMs + OTP_TTL]]
    /\ okCount = [e \in Emails |-> 0]
    /\ mismatches = [e \in Emails |-> 0]
    /\ expiries = [e \in Emails |-> 0]
    /\ undelivered = {}
    /\ tokensIssued = {}
    /\ used = {}
    /\ contacts = 0
    /\ bookings = 0
    /\ bookingDocs = <<>>
    /\ refunded = {}

NextReset ==
    \/ Tick
    \/ \E email \in Emails \cup {"nobody@x.io"} : ForgotFind(1, email)
    \/ ForgotSave(1)
    \/ \E delivered \in BOOLEAN : ForgotMail(1, delivered)
    \/ \E token \in SubmittedTokens, password \in Passwords : ResetVerify(1, token, password)
    \/ ResetFind(1)
    \/ ResetHash(1)
    \/ ResetSave(1)
    \/ Finish(1)

SpecReset == InitReset /\ [][NextReset]_vars

\* Password reset for one email, requests interleaved at their awaits
NextResetConc ==
    \/ Tick
    \/ \E p \in Procs :
        \/ \E email \in ConcEmails : ForgotFind(p, email)
        \/ ForgotSave(p)
        \/ \E delivered \in BOOLEAN : ForgotMail(p, delivered)
        \/ \E token \in SubmittedTokens, password \in Passwords :
              ResetVerify(p, token, password)
        \/ ResetFind(p)
        \/ ResetHash(p)
        \/ ResetSave(p)
        \/ Finish(p)

SpecResetConc == InitReset /\ [][NextResetConc]_vars

\* Contact form and bookings, requests interleaved at their awaits
NextNotify ==
    \E p \in Procs :
        \/ \E complete \in BOOLEAN, saveOk \in BOOLEAN : ContactSave(p, complete, saveOk)
        \/ \E adminOk \in BOOLEAN, clientOk \in BOOLEAN : ContactMail(p, adminOk, clientOk)
        \/ \E hasTraveler \in BOOLEAN, hasPayment \in BOOLEAN, saveOk \in BOOLEAN :
              BookingSave(p, hasTraveler, hasPayment, "pay_1", saveOk)
        \/ \E adminOk \in BOOLEAN, userOk \in BOOLEAN : BookingMail(p, adminOk, userOk)
        \/ Finish(p)

SpecNotify == Init /\ [][NextNotify]_vars

\* Bookings and refunds, requests interleaved at their awaits
NextRefund ==
    \E p \in Procs :
        \/ \E hasPayment \in BOOLEAN, paymentId \in PaymentIds, saveOk \in BOOLEAN :
              BookingSave(p, TRUE, hasPayment, paymentId, saveOk)
        \/ \E adminOk \in BOOLEAN, userOk \in BOOLEAN : BookingMail(p, adminOk, userOk)
        \/ \E paymentId \in PaymentIds, amount \in Amounts, outcome \in GatewayOutcomes :
              RefundGateway(p, paymentId, amount, outcome)
        \/ \E updateOk \in BOOLEAN : RefundUpdate(p, updateOk)
        \/ Finish(p)

SpecRefund == Init /\ [][NextRefund]_vars

\* Every account handler for two emails within one instant of the clock
\* (expiry of codes and tokens is exercised by Spec and SpecReset).  Slot 1
\* serves signup (password "pw1", code "111111", mail delivered) and
\* verification for both emails and forgot-password and reset-password for
\* the first, one after the other; slot 2 serves logins, interleaved with
\* them at every await
NextAuth ==
    \/ \E name \in Names, email \in Emails : SignupFind(1, name, email, "pw1", "111111")
    \/ SignupHash(1)
    \/ SignupSave(1)
    \/ SignupMail(1, TRUE)
    \/ \E email \in Emails, otp \in SubmittedOtps : VerifyFind(1, email, otp)
    \/ VerifySave(1)
    \/ \E email \in Emails, password \in Passwords, findOk \in BOOLEAN :
          LoginFind(2, email, password, findOk)
    \/ LoginCompare(2)
    \/ \E email \in ConcEmails : ForgotFind(1, email)
    \/ ForgotSave(1)
    \/ \E delivered \in BOOLEAN : ForgotMail(1, delivered)
    \/ \E token \in SubmittedTokens, password \in Passwords : ResetVerify(1, token, password)
    \/ ResetFind(1)
    \/ ResetHash(1)
    \/ ResetSave(1)
    \/ Finish(1)
    \/ Finish(2)

SpecAuth == Init /\ [][NextAuth]_vars

----------------------------------------------------------------------------
(* Properties *)

\* the first piece of a request of kind op, taken by slot p in this step
Began(p, op) == pc[p] = "idle" /\ pc'[p] # "idle" /\ req'[p].op = op

\* the second piece of a request, taken by slot p in this step
Resumed(p, at) == pc[p] = at /\ pc'[p] # at

\* slot p holds the response r to a request of kind op
Answered(p, op, r) == pc[p] = "done" /\ req[p].op = op /\ resp[p] = r

StoredOtp(email) == FindOne(ByEmail(email)).otp

\* verify-otp begins in this step with the code issued for its email, unused so far
BeganWithIssuedCode(p) ==
    /\ Began(p, "verify")
    /\ issued[req'[p].email] # NoOtp
    /\ req'[p].otp = issued[req'[p].email].otp
    /\ okCount[req'[p].email] = 0

\* ... within the ten minutes after its issue
BeganInTime(p) == BeganWithIssuedCode(p) /\ now <= issued[req'[p].email].expiresAt

\* ... after them
BeganTooLate(p) == BeganWithIssuedCode(p) /\ now > issued[req'[p].email].expiresAt

\* verify-otp begins in this step with the code issued for its email, used already
BeganWithUsedCode(p) ==
    /\ Began(p, "verify")
    /\ req'[p].otp = issued[req'[p].email].otp
    /\ okCount[req'[p].email] > 0

\* C1 as stated: a verify with a code that has already verified its email
\* answers 'User not found' (NotFound)
C1_UsedCodeNotFound ==
    [][\A p \in Procs : BeganWithUsedCode(p) => resp'[p] = UserNotFound]_vars

\* C1 as amended: a verify with the issued code before its expiry succeeds and
\* clears the stored code; a later verify with that code answers 'Invalid OTP'
\* (Mismatch: the account is still there, its code is not); no issued code
\* verifies twice
C1_ExactlyOnce ==
    [][/\ \A p \in Procs :
            /\ BeganInTime(p) => pc'[p] = "verify_save"
            /\ Resumed(p, "verify_save") =>
                 /\ resp'[p] = Verified
                 /\ \A u \in users' : u.email = req[p].email => u.otp = Null
            /\ BeganWithUsedCode(p) => resp'[p] = InvalidOtp /\ users' = users
        /\ \A e \in Emails : okCount'[e] <= 1]_vars

C1_Witness ==
    \E p \in Procs :
        /\ Answered(p, "verify", InvalidOtp)
        /\ okCount[req[p].email] = 1
        /\ req[p].otp = issued[req[p].email].otp

\* C2: however verify calls interleave, at most one of them answers success
\* for an issued code
C2_AtMostOneSuccess == \A e \in Emails : okCount[e] <= 1

\* C3 as stated: a verify with the issued code after its expiry answers
\* 'OTP expired' and removes the stored code, and a verify after that answers
\* 'User not found' (NotFound)
C3_ExpiredPurges ==
    [][\A p \in Procs :
         /\ BeganTooLate(p) =>
              /\ resp'[p] = OtpExpired
              /\ \A u \in users' : u.email = req'[p].email => u.otp = Null
         /\ (BeganWithIssuedCode(p) /\ expiries[req'[p].email] > 0) =>
              resp'[p] = UserNotFound]_vars

\* C3 as amended: a verify with the issued code after its expiry answers
\* 'OTP expired' and changes nothing, the first time and every time after
C3_ExpiredStays ==
    [][\A p \in Procs :
         /\ BeganTooLate(p) => resp'[p] = OtpExpired /\ users' = users
         /\ (BeganWithIssuedCode(p) /\ expiries[req'[p].email] > 0) =>
              resp'[p] = OtpExpired /\ users' = users]_vars

C3_Witness ==
    \E p \in Procs :
        /\ Answered(p, "verify", OtpExpired)
        /\ expiries[req[p].email] = 2
        /\ req[p].otp = issued[req[p].email].otp
        /\ StoredOtp(req[p].email) = req[p].otp

\* C4: once an issue request (signup) for an email is over, the stored code of
\* that email is the one this request drew: a second issue replaces the first
C4_ReissueReplaces ==
    \A p \in Procs :
        (pc[p] = "done" /\ req[p].op = "signup" /\ okCount[req[p].email] = 0)
            => StoredOtp(req[p].email) = req[p].otp

\* C5: a verify with a code other than the stored one answers 'Invalid OTP'
\* and changes nothing, and the issued code still verifies within its ten
\* minutes whatever the number of such attempts before it
C5_MismatchKeepsRecord ==
    [][\A p \in Procs :
         /\ (Began(p, "verify") /\ issued[req'[p].email] # NoOtp
                                /\ StoredOtp(req'[p].email) # req'[p].otp) =>
              resp'[p] = InvalidOtp /\ users' = users
         /\ (BeganInTime(p) /\ mismatches[req'[p].email] > 0) => pc'[p] = "verify_save"
         /\ Resumed(p, "verify_save") =>
              /\ resp'[p] = Verified
              /\ \A u \in users' : u.email = req[p].email => u.verified]_vars

C5_Witness ==
    \E p \in Procs :
        /\ Answered(p, "verify", Verified)
        /\ mismatches[req[p].email] = MaxCount

\* C6: when the OTP mail of a signup fails, the response is an error and the
\* document saved before the mail stays as it is, so its code still verifies
\* within its ten minutes
C6_NoRollback ==
    [][\A p \in Procs :
         /\ (Resumed(p, "signup_mail") /\ undelivered' # undelivered) =>
              /\ resp'[p].status = 500
              /\ users' = users
              /\ \E u \in users' : /\ u.email = req[p].email
                                   /\ u.otp = req[p].otp
                                   /\ u.otpExpires = issued[req[p].email].expiresAt
         /\ (BeganInTime(p) /\ req'[p].email \in undelivered) => pc'[p] = "verify_save"
         /\ (Resumed(p, "verify_save") /\ req[p].email \in undelivered) =>
              resp'[p] = Verified]_vars

C6_Witness ==
    \E p \in Procs :
        /\ Answered(p, "verify", Verified)
        /\ req[p].email \in undelivered

\* C7: a signup for an email that has an account answers 'Email already in
\* use' and changes nothing; a signup that loses the race to the save answers
\* an error and changes nothing; the collection never holds two accounts with
\* one email
C7_OneAccountPerEmail ==
    [][\A p \in Procs :
         /\ \A e \in Emails : Cardinality({u \in users' : u.email = e}) <= 1
         /\ (Began(p, "signup") /\ ByEmail(req'[p].email) # {}) =>
              resp'[p] = EmailInUse /\ users' = users
         /\ (Resumed(p, "signup_save") /\ ByEmail(req[p].email) # {}) =>
              resp'[p].status = 500 /\ users' = users]_vars

C7_Witness ==
    /\ \E p \in Procs : Answered(p, "signup", DuplicateKey)
    /\ \E p \in Procs : Answered(p, "signup", EmailInUse)
    /\ Cardinality(users) = 1

\* the reset token of the request that begins in slot p is past its 15 minutes
TokenWindowPassed(p) ==
    /\ req'[p].token.sig = "ok"
    /\ now >= req'[p].token.iat * 1000 + RESET_TTL

\* C8: a reset-password with a token past its 15 minutes, or with a token
\* that fails verification, answers 'Invalid or expired token' and changes
\* nothing
C8_BadTokenRejected ==
    [][\A p \in Procs :
         (Began(p, "reset") /\ (TokenWindowPassed(p) \/ req'[p].token.sig = "bad")) =>
              resp'[p] = InvalidOrExpiredToken /\ users' = users]_vars

\* C9: a reset-password that succeeds stores the hash of the new password
\* and clears the stored token and its expiry; it succeeds only with a token
\* that has not reset a password before, and only with the token stored on
\* the account at that moment
C9_TokenResetsOnce ==
    [][\A p \in Procs :
         Resumed(p, "reset_save") =>
            /\ resp'[p] = ResetOk
            /\ \A u \in users' : u.id = req[p].token.userId =>
                  /\ u.password = Hash(req[p].password)
                  /\ u.resetPasswordToken = NoToken
                  /\ u.resetPasswordExpire = NullDate
            /\ req[p].token \notin used
            /\ \E u \in users : /\ u.id = req[p].token.userId
                                /\ u.resetPasswordToken = req[p].token]_vars

\* C10: a contact or booking request whose record was saved answers success,
\* with each emailsSent flag telling whether that mail was delivered
C10_SavedMeansSuccess ==
    \A p \in Procs :
        (pc[p] = "done" /\ req[p].op \in {"contact", "booking"} /\ req[p].saved) =>
            /\ resp[p].success
            /\ resp[p].emailsSent \in
                  {[admin |-> req[p].delivered[1], client |-> req[p].delivered[2]],
                   [admin |-> req[p].delivered[1], user |-> req[p].delivered[2]]}

----------------------------------------------------------------------------
\* C11: when no code was ever issued for an email (no signup has stored a
\* document for it), a verify-otp request for that email is answered
\* 400 'User not found' whatever code it submits, and the step changes
\* neither the User collection nor anything recorded about the codes.
C11_UnknownEmailNotFound ==
    [][\A p \in Procs :
          (Began(p, "verify") /\ issued[req'[p].email] = NoOtp)
             => /\ resp'[p] = UserNotFound
                /\ pc'[p] = "done"
                /\ users' = users
                /\ UNCHANGED authObs]_vars

\* a verify-otp for an email without a document has been answered
\* 'User not found' while another email has an account
C11_Witness ==
    \E p \in Procs :
        /\ Answered(p, "verify", UserNotFound)
        /\ issued[req[p].email] = NoOtp
        /\ req[p].otp \in Codes
        /\ users # {}

----------------------------------------------------------------------------
\* a login request answered 200 by slot p in this step
LoginSucceeds(p) == Resumed(p, "login_compare") /\ resp'[p].status = 200

\* the document u2 of the next state is verified, and no verified document
\* with its _id exists in this state
BecomesVerified(u2) ==
    /\ u2.verified
    /\ ~\E u \in users : u.id = u2.id /\ u.verified

\* C12: login is gated on verification.  A login goes on to the password
\* comparison only with the document of the submitted email, and only when
\* that document's verified flag is true; it is answered 200 with a token
\* only when, besides, the submitted password matches the hash it read from
\* that document, and the token carries the document's _id; every other
\* login is answered 401 or 500 without a token.  A document's verified flag
\* becomes true only in the saving step of a verify-otp request for that
\* document's email, answered 200 (signup, rejected verifies, login,
\* forgot-password and reset-password never set it), and never goes back; so
\* every token goes to an account that has passed OTP verification.
C12_LoginGatedOnVerification ==
    [][/\ \A p \in Procs :
            (Began(p, "login") /\ pc'[p] = "login_compare") =>
               \E u \in users :
                  /\ u.email = req'[p].email
                  /\ u.id = req'[p].id
                  /\ u.verified
                  /\ okCount[u.email] > 0
                  /\ u.password = req'[p].hash
       /\ \A p \in Procs :
            LoginSucceeds(p) =>
               \E u \in users :
                  /\ u.email = req[p].email
                  /\ u.id = req[p].id
                  /\ u.verified
                  /\ okCount[u.email] > 0
                  /\ Compare(req[p].password, req[p].hash)
                  /\ resp'[p].token = JwtSign(u.id, now, LOGIN_JWT_TTL)
       /\ \A p \in Procs :
            (pc'[p] = "done" /\ pc[p] # "done" /\ req'[p].op = "login"
                /\ resp'[p].status # 200)
               => resp'[p] \in {InvalidCredentials, VerifyFirst, LoginFailed}
       /\ \A u \in users : u.verified => \E u2 \in users' : u2.id = u.id /\ u2.verified
       /\ \A u2 \in users' :
            BecomesVerified(u2) =>
               \E p \in Procs :
                  /\ Resumed(p, "verify_save")
                  /\ req[p].email = u2.email
                  /\ req[p].id = u2.id
                  /\ resp'[p] = Verified]_vars

\* a login has been answered 200 for a verified account with the password a
\* reset gave it, while the other account exists and is still unverified
C12_Witness ==
    \E p \in Procs :
        /\ pc[p] = "done"
        /\ req[p].op = "login"
        /\ resp[p].status = 200
        /\ req[p].password = "pw2"
        /\ \E u \in users : u.email = req[p].email /\ u.password = Hash("pw2")
        /\ \E u \in users : u.email # req[p].email /\ ~u.verified

----------------------------------------------------------------------------
\* the booking at position i is cancelled in the next state and was not in this one
GetsCancelled(i) ==
    /\ bookingDocs'[i].status = "cancelled"
    /\ (i > Len(bookingDocs) \/ bookingDocs[i].status # "cancelled")

\* C13: in the refund handler a booking's payment status becomes 'cancelled'
\* only in the update that follows an accepted gateway refund for that
\* booking's payment id; when the gateway call fails the handler answers 500
\* with success false and no booking changes; and a refund response says
\* success only when the gateway accepted the refund and the booking update
\* that followed returned without an error.
C13_CancelledOnlyAfterRefund ==
    [][/\ \A i \in 1..Len(bookingDocs') :
            GetsCancelled(i) =>
               \E p \in Procs :
                  /\ Resumed(p, "refund_update")
                  /\ req[p].gateway
                  /\ req[p].payment_id \in refunded
                  /\ bookingDocs[i].razorpayPaymentId = req[p].payment_id
                  /\ resp'[p].success
       /\ \A p \in Procs :
            (Began(p, "refund") /\ ~req'[p].gateway)
               => /\ bookingDocs' = bookingDocs
                  /\ pc'[p] = "done"
                  /\ resp'[p].status = 500
                  /\ ~resp'[p].success
       /\ \A p \in Procs :
            (pc'[p] = "done" /\ pc[p] # "done" /\ req'[p].op = "refund"
                /\ resp'[p].success)
               => /\ Resumed(p, "refund_update")
                  /\ req'[p].gateway
                  /\ req'[p].updated
                  /\ req'[p].payment_id \in refunded
                  /\ bookingDocs' = Cancelled(bookingDocs, req'[p].payment_id)]_vars

\* a refund has been answered with success and its booking is cancelled,
\* while a refund the gateway refused has left its booking as paid
C13_Witness ==
    \E p, q \in Procs :
        /\ pc[p] = "done" /\ req[p].op = "refund" /\ resp[p].success
        /\ pc[q] = "done" /\ req[q].op = "refund" /\ ~req[q].gateway
        /\ \E i, j \in 1..Len(bookingDocs) :
              /\ bookingDocs[i].razorpayPaymentId = req[p].payment_id
              /\ bookingDocs[i].status = "cancelled"
              /\ bookingDocs[j].razorpayPaymentId = req[q].payment_id
              /\ bookingDocs[j].status = "paid"

====
